---- MODULE Spec2Model ----
(***************************************************************************)
(* The memory subsystem of Archon: the file-backed memory provider of      *)
(* src/memory/index.ts (createFileProvider) over one storage directory.    *)
(*                                                                         *)
(* Encodings                                                               *)
(*   string   a content string or a query is the sequence of its           *)
(*            characters; a tag, a metadata key and a provider name are    *)
(*            atoms.                                                       *)
(*   optional an optional value is a sequence of length 0 (undefined) or 1 *)
(*            (the value).                                                 *)
(*   id       the string `mem_${time}_${suffix}` is <<"mem", time, suffix>>*)
(*            (neither part contains "_", so the triple and the string     *)
(*            determine each other).                                       *)
(*   Date     a Date is its getTime() value in milliseconds.               *)
(*   Map      a JavaScript Map is the sequence of its values in insertion  *)
(*            order (the order Array.from(map.values()) yields).           *)
(***************************************************************************)
EXTENDS Integers, Sequences, FiniteSets, TLC

VARIABLES
    disk,       \* the storage directory: [dir, file]
    memories,   \* per provider instance: the Map `memories`
    loaded,     \* per provider instance: the flag `loaded`
    now,        \* the wall clock read by Date.now() and new Date()
    last,       \* the call that completed last, with its arguments and outcome
    calls,      \* the calls in flight, each with the await it is suspended at
    providerRegistry,   \* the Map `providerRegistry`: type name -> factory
    reply,      \* the last call of the factory, the stub, the schema or the
                \* review agent, with its arguments and outcome
    agents,     \* the config objects of the review agents created so far
    arrays      \* the array objects that configs refer to, by reference

\* the state of the file engine, and the state of the rest of the platform
engine == <<disk, memories, loaded, now, last, calls>>
platform == <<providerRegistry, reply, agents, arrays>>

vars == <<disk, memories, loaded, now, last, calls, providerRegistry, reply, agents, arrays>>

----------------------------------------------------------------------------
(* Bounds of the model *)

MaxEntries == 2         \* a save is issued only while the index is smaller
FirstInstant == 999     \* the clock's reading in the initial state
LastInstant == 1000     \* the clock's last reading

\* the provider objects: the owner of the storage path, and a sibling
\* constructed on the same path
Instances == {"owner", "sibling"}
\* outcomes of Math.random().toString(36).slice(2, 9)
Suffixes == {"k3j9x0a", "p0q8w7e"}
Instants == FirstInstant..LastInstant

None == <<>>
Some(x) == <<x>>

Min(a, b) == IF a <= b THEN a ELSE b

----------------------------------------------------------------------------
(* JavaScript values held in metadata, and their JSON images *)

\* a metadata object is [defined, props]; props is a set of <<key, type, value>>
NoMetadata == [defined |-> FALSE, props |-> {}]
Metadata(props) == [defined |-> TRUE, props |-> props]

\* JSON.stringify of one property: undefined/function values are omitted,
\* non-finite numbers become null, everything else is kept.
JsonOmits(p) == p[2] \in {"undefined", "function"}
JsonOfProperty(p) ==
    IF p[2] = "number" /\ p[3] \in {"NaN", "Infinity", "-Infinity"}
    THEN <<p[1], "null", "null">>
    ELSE p

JsonOfMetadata(m) ==
    IF m.defined
    THEN Metadata({JsonOfProperty(p) : p \in {q \in m.props : ~JsonOmits(q)}})
    ELSE NoMetadata

\* Date.prototype.toISOString, for instants of 1970-01-01:
\* YYYY-MM-DDTHH:mm:ss.sssZ as <<YYYY, MM, DD, HH, mm, ss, sss>>
ToISOString(ms) ==
    <<1970, 1, 1,
      (ms \div 3600000) % 24,
      (ms \div 60000) % 60,
      (ms \div 1000) % 60,
      ms % 1000>>

\* new Date(isoString).getTime(), for dates of 1970-01-01
DateFromISO(iso) ==
    ((iso[4] * 60 + iso[5]) * 60 + iso[6]) * 1000 + iso[7]

\* JSON.stringify(entry): the Date serialises through toJSON = toISOString,
\* `metadata: undefined` is omitted from the object.
JsonOfEntry(e) ==
    [id |-> e.id,
     content |-> e.content,
     metadata |-> JsonOfMetadata(e.metadata),
     timestamp |-> ToISOString(e.timestamp),
     tags |-> e.tags]

\* JSON.stringify(entries, null, 2)
Stringify(entries) == [k \in 1..Len(entries) |-> JsonOfEntry(entries[k])]

\* variant: `timestamp: new Date()`, the stored timestamp is not passed on
ReviveEntry_Now(j) ==
    [id |-> j.id,
     content |-> j.content,
     metadata |-> j.metadata,
     timestamp |-> now,
     tags |-> j.tags]

\* { ...entry, timestamp: new Date(entry.timestamp) } of ensureLoaded
ReviveEntry(j) ==
    [id |-> j.id,
     content |-> j.content,
     metadata |-> j.metadata,
     timestamp |-> DateFromISO(j.timestamp),
     tags |-> j.tags]

----------------------------------------------------------------------------
(* Map<string, MemoryEntry> *)

NullEntry == [null |-> TRUE]

MapIds(m) == {m[k].id : k \in 1..Len(m)}
MapHas(m, id) == \E k \in 1..Len(m) : m[k].id = id
MapGet(m, id) ==
    IF MapHas(m, id)
    THEN m[CHOOSE k \in 1..Len(m) : m[k].id = id]
    ELSE NullEntry
\* Map.prototype.set keeps the position of an existing key
MapSet(m, e) ==
    IF MapHas(m, e.id)
    THEN [k \in 1..Len(m) |-> IF m[k].id = e.id THEN e ELSE m[k]]
    ELSE Append(m, e)
MapDelete(m, id) == SelectSeq(m, LAMBDA e : e.id # id)

----------------------------------------------------------------------------
(* Built-ins of String and Array used by the provider *)

UpperCase == <<"A", "B", "C", "T">>
LowerCase == <<"a", "b", "c", "t">>

ToLowerChar(c) ==
    IF \E k \in 1..Len(UpperCase) : UpperCase[k] = c
    THEN LowerCase[CHOOSE k \in 1..Len(UpperCase) : UpperCase[k] = c]
    ELSE c

\* variant: the strings are compared as they are, letter case included
ToLowerCase_AsIs(s) == s

\* String.prototype.toLowerCase
ToLowerCase(s) == [k \in 1..Len(s) |-> ToLowerChar(s[k])]

\* String.prototype.includes: q occurs in s as a contiguous substring
StringIncludes(s, q) ==
    \E k \in 0..(Len(s) - Len(q)) : \A j \in 1..Len(q) : s[k + j] = q[j]

\* Array.prototype.includes
ArrayIncludes(arr, x) == \E k \in 1..Len(arr) : arr[k] = x

\* variant: `some` in place of `every`
EveryTagIncluded_Some(tags, entry) ==
    \E k \in 1..Len(tags) : ArrayIncludes(entry.tags, tags[k])

\* options.tags.every((tag) => entry.tags.includes(tag))
EveryTagIncluded(tags, entry) ==
    \A k \in 1..Len(tags) : ArrayIncludes(entry.tags, tags[k])

\* results.sort((a, b) => b.timestamp.getTime() - a.timestamp.getTime()):
\* a stable sort, so entries of equal timestamp keep their relative order.
InsertByTimestamp(sorted, e) ==
    LET k == Cardinality({j \in 1..Len(sorted) : sorted[j].timestamp >= e.timestamp})
    IN SubSeq(sorted, 1, k) \o <<e>> \o SubSeq(sorted, k + 1, Len(sorted))

\* variant: the sort is left out
SortNewestFirst_Unsorted(arr) == arr

RECURSIVE SortNewestFirst(_)
SortNewestFirst(arr) ==
    IF arr = <<>>
    THEN <<>>
    ELSE InsertByTimestamp(SortNewestFirst(SubSeq(arr, 1, Len(arr) - 1)), arr[Len(arr)])

\* variant: the last n elements are kept, slice(-n)
Slice_Oldest(arr, n) == SubSeq(arr, Len(arr) - Min(n, Len(arr)) + 1, Len(arr))

\* Array.prototype.slice(0, n) for n > 0
Slice(arr, n) == SubSeq(arr, 1, Min(n, Len(arr)))

----------------------------------------------------------------------------
(* MemorySearchOptions *)

NoOptions == [limit |-> None, tags |-> None, since |-> None, until |-> None]

\* `options.tags && options.tags.length > 0`
TagsGiven(o) == o.tags # None /\ Len(o.tags[1]) > 0
\* variant: `options.limit !== undefined`
LimitGiven_Defined(o) == o.limit # None

\* `options.limit && options.limit > 0`: undefined and 0 are falsy
LimitGiven(o) == o.limit # None /\ o.limit[1] # 0 /\ o.limit[1] > 0

\* variant: `entry.timestamp > options.since`, `entry.timestamp < options.until`
ListEntries_ExclusiveBounds(m, o) ==
    LET all == m
        tagged == IF TagsGiven(o)
                  THEN SelectSeq(all, LAMBDA e : EveryTagIncluded(o.tags[1], e))
                  ELSE all
        after == IF o.since # None
                 THEN SelectSeq(tagged, LAMBDA e : e.timestamp > o.since[1])
                 ELSE tagged
        before == IF o.until # None
                  THEN SelectSeq(after, LAMBDA e : e.timestamp < o.until[1])
                  ELSE after
        sorted == SortNewestFirst(before)
    IN IF LimitGiven(o) THEN Slice(sorted, o.limit[1]) ELSE sorted

\* the body of list() after ensureLoaded
ListEntries(m, o) ==
    LET all == m
        tagged == IF TagsGiven(o)
                  THEN SelectSeq(all, LAMBDA e : EveryTagIncluded(o.tags[1], e))
                  ELSE all
        after == IF o.since # None
                 THEN SelectSeq(tagged, LAMBDA e : e.timestamp >= o.since[1])
                 ELSE tagged
        before == IF o.until # None
                  THEN SelectSeq(after, LAMBDA e : e.timestamp <= o.until[1])
                  ELSE after
        sorted == SortNewestFirst(before)
    IN IF LimitGiven(o) THEN Slice(sorted, o.limit[1]) ELSE sorted

\* variant: the content filter is left out
SearchEntries_AnyContent(m, query, o) == ListEntries(m, o)

\* variant: the content filter is applied last, to the truncated list
SearchEntries_LimitFirst(m, query, o) ==
    SelectSeq(ListEntries(m, o),
              LAMBDA e : StringIncludes(ToLowerCase(e.content), ToLowerCase(query)))

\* the body of search() after ensureLoaded
SearchEntries(m, query, o) ==
    LET lowerQuery == ToLowerCase(query)
        matching == SelectSeq(m, LAMBDA e : StringIncludes(ToLowerCase(e.content), lowerQuery))
        tagged == IF TagsGiven(o)
                  THEN SelectSeq(matching, LAMBDA e : EveryTagIncluded(o.tags[1], e))
                  ELSE matching
        after == IF o.since # None
                 THEN SelectSeq(tagged, LAMBDA e : e.timestamp >= o.since[1])
                 ELSE tagged
        before == IF o.until # None
                  THEN SelectSeq(after, LAMBDA e : e.timestamp <= o.until[1])
                  ELSE after
        sorted == SortNewestFirst(before)
    IN IF LimitGiven(o) THEN Slice(sorted, o.limit[1]) ELSE sorted

----------------------------------------------------------------------------
(* ensureLoaded, persist, generateId *)

NoFile == [dir |-> FALSE, file |-> None]

\* for (const entry of entries) memories.set(entry.id, {...})
RECURSIVE LoadEntries(_, _)
LoadEntries(m, entries) ==
    IF entries = <<>>
    THEN m
    ELSE LoadEntries(MapSet(m, ReviveEntry(Head(entries))), Tail(entries))

\* the index after `await ensureLoaded()`; a missing file (ENOENT) leaves it as is
IndexAfterLoad(m, ld, d) ==
    IF ld \/ d.file = None THEN m ELSE LoadEntries(m, d.file[1])

\* variant: the directory is not created
DiskAfterLoad_NoMkdir(ld, d) == d

\* the directory after `await ensureLoaded()`: mkdir(..., { recursive: true })
DiskAfterLoad(ld, d) == IF ld THEN d ELSE [d EXCEPT !.dir = TRUE]

\* variant: the file is read and the index merged into it before the write
DiskAfterPersist_Merge(d, m) ==
    [d EXCEPT !.file = Some(Stringify(IndexAfterLoad(m, FALSE, d)))]

\* the directory after `await persist()`: the whole index replaces the file
DiskAfterPersist(d, m) == [d EXCEPT !.file = Some(Stringify(m))]

\* `mem_${Date.now()}_${Math.random().toString(36).slice(2, 9)}`
GenerateId(time, suffix) == <<"mem", time, suffix>>

NonExistentId == <<"non_existent_id", 0, "">>
IdArguments == {GenerateId(t, s) : t \in Instants, s \in Suffixes} \cup {NonExistentId}

----------------------------------------------------------------------------
(* Arguments the callers pass *)

\* MemoryInput values: content, optional metadata, tags
Inputs ==
    { [content |-> <<"C", "a", "t">>, metadata |-> NoMetadata,
       tags |-> <<"alpha">>],
      [content |-> <<"c", "a", "b">>,
       metadata |-> Metadata({<<"source", "string", "test">>, <<"priority", "number", "1">>}),
       tags |-> <<"alpha", "beta">>],
      [content |-> <<>>,
       metadata |-> Metadata({<<"score", "number", "NaN">>}),
       tags |-> <<>>] }

Queries == { <<>>, <<"A", "T">>, <<"b", "b">> }

Limits == {None, Some(-1), Some(0), Some(1), Some(2)}
TagFilters == {None, Some(<<>>), Some(<<"alpha">>), Some(<<"alpha", "beta">>)}

\* options values: each field varied alone, the two date bounds together,
\* and all fields at once
OptionValues ==
    {[NoOptions EXCEPT !.limit = l] : l \in Limits}
    \cup {[NoOptions EXCEPT !.tags = t] : t \in TagFilters}
    \cup {[NoOptions EXCEPT !.since = s, !.until = u] :
            s \in {None, Some(LastInstant)}, u \in {None, Some(FirstInstant)}}
    \cup {[limit |-> Some(1), tags |-> Some(<<"alpha">>),
           since |-> Some(FirstInstant), until |-> Some(LastInstant)]}

----------------------------------------------------------------------------
(* The record of the last completed call *)

(* `last` is an observer of the provider's interface, not program state:   *)
(*   op, inst        the operation and the instance it was issued on       *)
(*   fresh           the call found the instance unloaded and loaded it    *)
(*   id, input, query, options     the arguments                           *)
(*   ok, error       resolved, or rejected with the error                  *)
(*   entry, results  the value the call resolved to                        *)
(*   prior           for get and delete: the call completed just before,   *)
(*                   when that was the save that returned this id or a     *)
(*                   delete of this id                                     *)

NoInput == [content |-> <<>>, metadata |-> NoMetadata, tags |-> <<>>]
NoPrior == [op |-> "other", ok |-> TRUE, input |-> NoInput, entry |-> NullEntry]

PriorOf(l, id) ==
    IF l.op = "save" /\ l.entry.id = id
    THEN [op |-> "save", ok |-> TRUE, input |-> l.input, entry |-> l.entry]
    ELSE IF l.op = "delete" /\ l.id = id
         THEN [op |-> "delete", ok |-> l.ok, input |-> NoInput, entry |-> NullEntry]
         ELSE NoPrior

Call(op, i) ==
    [op |-> op, inst |-> i, fresh |-> ~loaded[i],
     id |-> NonExistentId, input |-> NoInput, query |-> <<>>, options |-> NoOptions,
     ok |-> TRUE, error |-> None, entry |-> NullEntry, results |-> <<>>,
     prior |-> NoPrior]

----------------------------------------------------------------------------
(* A call in flight *)

(* An async operation runs from one await to the next; other calls run in  *)
(* between.  A call in flight is the record of its arguments, of the await *)
(* it is suspended at, and of what it has done so far:                     *)
(*   pc        "mkdir", "readFile", "parse": inside ensureLoaded, before   *)
(*             fs.mkdir, before fs.readFile, before JSON.parse of the data *)
(*             read; "body": before the statements after ensureLoaded;     *)
(*             "persist": before JSON.stringify and fs.writeFile;          *)
(*             "writeFile": the write is issued; "resolved", "rejected"    *)
(*   issued    the clock when the operation was called                     *)
(*   data      the text read from the file, or the text handed to          *)
(*             writeFile                                                   *)
(*   failure   the file-system call or parse that failed, with its code    *)
(*   error     what the call was rejected with                             *)
(*   loadedHere  this call ran ensureLoaded to `loaded = true`             *)
(*   mutated   this call has changed the Map                               *)
(*   writes    the number of writeFile calls it has issued                 *)

\* the calls that may be in flight together
Slots == {1, 2}

NoCall ==
    [op |-> "none", inst |-> "owner", pc |-> "idle", issued |-> 0,
     input |-> NoInput, id |-> NonExistentId,
     data |-> None, failure |-> None, error |-> None,
     entry |-> NullEntry, results |-> <<>>,
     loadedHere |-> FALSE, mutated |-> FALSE, writes |-> 0]

\* a storage file whose text is not JSON
Unparsable == <<[unexpectedToken |-> TRUE]>>

----------------------------------------------------------------------------
(* The provider registry and the review agent: initial state *)

\* the discriminators a configuration may carry
TypeNames == {"file", "mcp", "custom", "my-custom-type"}
\* the factory functions callers register
Factories == {"redisFactory", "mockFactory"}

\* reply before any call
NoReply == [op |-> "none"]

\* DEFAULT_CONFIG.excludePatterns, and the reference of that array object
DefaultExcludePatterns ==
    <<"*.lock", "*.min.js", "*.min.css", "dist/**", "node_modules/**", "*.generated.*">>
DefaultsRef == "DEFAULT_CONFIG.excludePatterns"
\* an array a caller passes as override
CustomRef == "customConfig.excludePatterns"

InitPlatform ==
    /\ providerRegistry = [t \in TypeNames |-> None]
    /\ reply = NoReply
    /\ agents = <<>>
    /\ arrays = [r \in {DefaultsRef, CustomRef} |->
                    IF r = DefaultsRef THEN DefaultExcludePatterns ELSE <<"custom/**">>]

----------------------------------------------------------------------------
(* Operations *)

Init ==
    /\ disk \in {NoFile, [dir |-> TRUE, file |-> None]}
    /\ memories = [i \in Instances |-> <<>>]
    /\ loaded = [i \in Instances |-> FALSE]
    /\ now = FirstInstant
    /\ last = Call("none", "owner")
    /\ calls = [c \in Slots |-> NoCall]
    /\ InitPlatform

\* time passes between two calls
Tick ==
    /\ now < LastInstant
    /\ now' = now + 1
    /\ UNCHANGED <<disk, memories, loaded, last, calls, platform>>

\* createMemoryProvider({ type: "file", path }): a new provider object takes
\* the place of instance i; construction touches neither disk nor clock.
CreateFileProvider(i) ==
    /\ memories' = [memories EXCEPT ![i] = <<>>]
    /\ loaded' = [loaded EXCEPT ![i] = FALSE]
    /\ UNCHANGED <<disk, now, last, calls, platform>>

\* variant: `await persist()` is left out of save
Save_NoPersist(i, input, suffix) ==
    LET index == IndexAfterLoad(memories[i], loaded[i], disk)
        entry == [id |-> GenerateId(now, suffix),
                  content |-> input.content,
                  metadata |-> input.metadata,
                  timestamp |-> now,
                  tags |-> input.tags]
        stored == MapSet(index, entry)
    IN /\ Len(index) < MaxEntries
       /\ memories' = [memories EXCEPT ![i] = stored]
       /\ loaded' = [loaded EXCEPT ![i] = TRUE]
       /\ disk' = DiskAfterLoad(loaded[i], disk)
       /\ last' = [Call("save", i) EXCEPT !.input = input, !.entry = entry]
       /\ UNCHANGED <<now, calls, platform>>

\* save(input); Date.now() and new Date() read the clock in the same millisecond
Save(i, input, suffix) ==
    LET index == IndexAfterLoad(memories[i], loaded[i], disk)
        entry == [id |-> GenerateId(now, suffix),
                  content |-> input.content,
                  metadata |-> input.metadata,
                  timestamp |-> now,
                  tags |-> input.tags]
        stored == MapSet(index, entry)
    IN /\ Len(index) < MaxEntries
       /\ memories' = [memories EXCEPT ![i] = stored]
       /\ loaded' = [loaded EXCEPT ![i] = TRUE]
       /\ disk' = DiskAfterPersist(DiskAfterLoad(loaded[i], disk), stored)
       /\ last' = [Call("save", i) EXCEPT !.input = input, !.entry = entry]
       /\ UNCHANGED <<now, calls, platform>>

\* search(query, options)
Search(i, query, o) ==
    LET index == IndexAfterLoad(memories[i], loaded[i], disk)
    IN /\ memories' = [memories EXCEPT ![i] = index]
       /\ loaded' = [loaded EXCEPT ![i] = TRUE]
       /\ disk' = DiskAfterLoad(loaded[i], disk)
       /\ last' = [Call("search", i) EXCEPT !.query = query, !.options = o,
                                            !.results = SearchEntries(index, query, o)]
       /\ UNCHANGED <<now, calls, platform>>

\* variant: get throws for an id that is not stored, as delete does
Get_RejectsUnknown(i, id) ==
    LET index == IndexAfterLoad(memories[i], loaded[i], disk)
    IN /\ memories' = [memories EXCEPT ![i] = index]
       /\ loaded' = [loaded EXCEPT ![i] = TRUE]
       /\ disk' = DiskAfterLoad(loaded[i], disk)
       /\ last' = [Call("get", i) EXCEPT !.id = id, !.entry = MapGet(index, id),
                       !.ok = MapHas(index, id),
                       !.error = IF MapHas(index, id) THEN None
                                 ELSE Some(<<"Memory not found", id>>),
                       !.prior = PriorOf(last, id)]
       /\ UNCHANGED <<now, calls, platform>>

\* get(id): memories.get(id) ?? null
Get(i, id) ==
    LET index == IndexAfterLoad(memories[i], loaded[i], disk)
    IN /\ memories' = [memories EXCEPT ![i] = index]
       /\ loaded' = [loaded EXCEPT ![i] = TRUE]
       /\ disk' = DiskAfterLoad(loaded[i], disk)
       /\ last' = [Call("get", i) EXCEPT !.id = id, !.entry = MapGet(index, id),
                                         !.prior = PriorOf(last, id)]
       /\ UNCHANGED <<now, calls, platform>>

\* list(options)
List(i, o) ==
    LET index == IndexAfterLoad(memories[i], loaded[i], disk)
    IN /\ memories' = [memories EXCEPT ![i] = index]
       /\ loaded' = [loaded EXCEPT ![i] = TRUE]
       /\ disk' = DiskAfterLoad(loaded[i], disk)
       /\ last' = [Call("list", i) EXCEPT !.options = o,
                                          !.results = ListEntries(index, o)]
       /\ UNCHANGED <<now, calls, platform>>

\* variant: `await persist()` is left out of delete
Delete_NoPersist(i, id) ==
    LET index == IndexAfterLoad(memories[i], loaded[i], disk)
        found == MapHas(index, id)
        remaining == IF found THEN MapDelete(index, id) ELSE index
    IN /\ memories' = [memories EXCEPT ![i] = remaining]
       /\ loaded' = [loaded EXCEPT ![i] = TRUE]
       /\ disk' = DiskAfterLoad(loaded[i], disk)
       /\ last' = [Call("delete", i) EXCEPT !.id = id, !.ok = found,
                       !.error = IF found THEN None
                                 ELSE Some(<<"Memory not found", id>>),
                       !.prior = PriorOf(last, id)]
       /\ UNCHANGED <<now, calls, platform>>

\* variant: the `memories.has(id)` check is left out of delete
Delete_Unchecked(i, id) ==
    LET index == IndexAfterLoad(memories[i], loaded[i], disk)
        remaining == MapDelete(index, id)
    IN /\ memories' = [memories EXCEPT ![i] = remaining]
       /\ loaded' = [loaded EXCEPT ![i] = TRUE]
       /\ disk' = DiskAfterPersist(DiskAfterLoad(loaded[i], disk), remaining)
       /\ last' = [Call("delete", i) EXCEPT !.id = id, !.prior = PriorOf(last, id)]
       /\ UNCHANGED <<now, calls, platform>>

\* delete(id): throws `Memory not found: ${id}` before touching index or file
Delete(i, id) ==
    LET index == IndexAfterLoad(memories[i], loaded[i], disk)
        found == MapHas(index, id)
        remaining == IF found THEN MapDelete(index, id) ELSE index
    IN /\ memories' = [memories EXCEPT ![i] = remaining]
       /\ loaded' = [loaded EXCEPT ![i] = TRUE]
       /\ disk' = IF found
                  THEN DiskAfterPersist(DiskAfterLoad(loaded[i], disk), remaining)
                  ELSE DiskAfterLoad(loaded[i], disk)
       /\ last' = [Call("delete", i) EXCEPT !.id = id, !.ok = found,
                       !.error = IF found THEN None
                                 ELSE Some(<<"Memory not found", id>>),
                       !.prior = PriorOf(last, id)]
       /\ UNCHANGED <<now, calls, platform>>

\* Operations are issued one at a time (each awaited before the next) by the
\* owner of the storage path; constructing a provider anew on the same path
\* replaces the owner by a fresh instance.
Owner == {"owner"}

\* The life of the store: entries are saved, looked up and deleted, the
\* provider is constructed anew, and the plain queries are issued.
Next ==
    \/ Tick
    \/ \E i \in Owner : CreateFileProvider(i)
    \/ \E i \in Owner, input \in Inputs, suffix \in Suffixes : Save(i, input, suffix)
    \/ \E i \in Owner : Search(i, <<"A", "T">>, NoOptions)
    \/ \E i \in Owner, id \in IdArguments : Get(i, id)
    \/ \E i \in Owner : List(i, NoOptions)
    \/ \E i \in Owner, id \in IdArguments : Delete(i, id)

Spec == Init /\ [][Next]_vars

\* The queries: entries are saved, and search and list are issued with every
\* query and options value.
NextQuery ==
    \/ Tick
    \/ \E i \in Owner, input \in Inputs, suffix \in Suffixes : Save(i, input, suffix)
    \/ \E i \in Owner, query \in Queries, o \in OptionValues : Search(i, query, o)
    \/ \E i \in Owner, o \in OptionValues : List(i, o)

SpecQuery == Init /\ [][NextQuery]_vars

----------------------------------------------------------------------------
(* The operations, from await to await *)

\* an entry a run of the program has left in the storage file before
SeedEntry ==
    [id |-> GenerateId(FirstInstant - 1, "p0q8w7e"),
     content |-> <<"c", "a", "b">>,
     metadata |-> NoMetadata,
     timestamp |-> FirstInstant - 1,
     tags |-> <<"beta">>]
SeedFile == [dir |-> TRUE, file |-> Some(Stringify(<<SeedEntry>>))]
BadFile == [dir |-> TRUE, file |-> Some(Unparsable)]

\* an input object that carries, beside the fields of MemoryInput, an id and
\* a timestamp of the caller's
StrayInput ==
    [content |-> <<"C", "a", "t">>,
     metadata |-> Metadata({<<"source", "string", "test">>}),
     tags |-> <<"alpha">>,
     id |-> <<"caller", 0, "">>,
     timestamp |-> 0]
CallInputs ==
    { [content |-> <<"C", "a", "t">>, metadata |-> NoMetadata, tags |-> <<"alpha">>],
      StrayInput }
CallIds == {SeedEntry.id, GenerateId(FirstInstant, "k3j9x0a"), NonExistentId}

\* the calls issued: <<operation, input, id>>
Invocations ==
    {<<"save", input, NonExistentId>> : input \in CallInputs}
    \cup {<<op, NoInput, id>> : op \in {"get", "delete"}, id \in CallIds}
    \cup {<<"search", NoInput, NonExistentId>>, <<"list", NoInput, NonExistentId>>}

\* errors of fs/promises, of JSON.parse and of delete
FsError(syscall, code) == [code |-> code, syscall |-> syscall]
SyntaxError == [name |-> "SyntaxError"]
NotFound(id) == [message |-> "Memory not found", id |-> id]

Loading == {"mkdir", "readFile", "parse"}

\* a save is issued only while index and file leave room for its entry
Room(i) ==
    LET stored == IF disk.file = None THEN 0 ELSE Len(disk.file[1])
        held == IF Len(memories[i]) >= stored THEN Len(memories[i]) ELSE stored
        coming == {c \in Slots : /\ calls[c].op = "save" /\ calls[c].inst = i
                                 /\ calls[c].pc \in Loading \cup {"body"}}
    IN held + Cardinality(coming) < MaxEntries

\* the operation is called: its first statement `await ensureLoaded()` runs
\* ensureLoaded up to its first await, which is past `if (loaded) return`
Invoke(c, i, inv) ==
    /\ calls[c].pc \in {"idle", "resolved", "rejected"}
    /\ inv[1] = "save" => Room(i)
    /\ calls' = [calls EXCEPT ![c] =
                    [NoCall EXCEPT !.op = inv[1], !.inst = i,
                                   !.pc = IF loaded[i] THEN "body" ELSE "mkdir",
                                   !.issued = now, !.input = inv[2], !.id = inv[3]]]
    /\ UNCHANGED <<disk, memories, loaded, now, last, platform>>

\* await fs.mkdir(path.dirname(filePath), { recursive: true }); an error other
\* than ENOENT is thrown on, ENOENT is caught and `loaded = true` follows
Mkdir(c, outcome) ==
    LET i == calls[c].inst
    IN /\ calls[c].pc = "mkdir"
       /\ \/ /\ outcome = "ok"
             /\ disk' = [disk EXCEPT !.dir = TRUE]
             /\ calls' = [calls EXCEPT ![c].pc = "readFile"]
             /\ UNCHANGED loaded
          \/ /\ outcome = "EACCES"
             /\ calls' = [calls EXCEPT ![c].pc = "rejected",
                                       ![c].failure = Some(FsError("mkdir", outcome)),
                                       ![c].error = Some(FsError("mkdir", outcome))]
             /\ UNCHANGED <<disk, loaded>>
          \/ /\ outcome = "ENOENT"
             /\ loaded' = [loaded EXCEPT ![i] = TRUE]
             /\ calls' = [calls EXCEPT ![c].pc = "body",
                                       ![c].failure = Some(FsError("mkdir", outcome)),
                                       ![c].loadedHere = TRUE]
             /\ UNCHANGED disk
       /\ UNCHANGED <<memories, now, last, platform>>

\* await fs.readFile(filePath, "utf-8"); a missing file is ENOENT, which is
\* caught and `loaded = true` follows
ReadFile(c, outcome) ==
    LET i == calls[c].inst
    IN /\ calls[c].pc = "readFile"
       /\ \/ /\ outcome = "ok" /\ disk.file # None
             /\ calls' = [calls EXCEPT ![c].pc = "parse", ![c].data = disk.file]
             /\ UNCHANGED loaded
          \/ /\ outcome = "ok" /\ disk.file = None
             /\ loaded' = [loaded EXCEPT ![i] = TRUE]
             /\ calls' = [calls EXCEPT ![c].pc = "body", ![c].loadedHere = TRUE]
          \/ /\ outcome = "EACCES"
             /\ calls' = [calls EXCEPT ![c].pc = "rejected",
                                       ![c].failure = Some(FsError("open", outcome)),
                                       ![c].error = Some(FsError("open", outcome))]
             /\ UNCHANGED loaded
       /\ UNCHANGED <<disk, memories, now, last, platform>>

\* JSON.parse(data), the loop of memories.set, `loaded = true`
Parse(c) ==
    LET i == calls[c].inst
        text == calls[c].data[1]
    IN /\ calls[c].pc = "parse"
       /\ IF text = Unparsable
          THEN /\ calls' = [calls EXCEPT ![c].pc = "rejected",
                                         ![c].failure = Some(SyntaxError),
                                         ![c].error = Some(SyntaxError)]
               /\ UNCHANGED <<memories, loaded>>
          ELSE /\ memories' = [memories EXCEPT ![i] = LoadEntries(memories[i], text)]
               /\ loaded' = [loaded EXCEPT ![i] = TRUE]
               /\ calls' = [calls EXCEPT ![c].pc = "body", ![c].loadedHere = TRUE]
       /\ UNCHANGED <<disk, now, last, platform>>

\* variant: `{ ...input, id: input.id ?? generateId(), timestamp: input.timestamp ?? new Date() }`
NewEntry_Spread(input, time, suffix) ==
    [id |-> IF "id" \in DOMAIN input THEN input.id ELSE GenerateId(time, suffix),
     content |-> input.content,
     metadata |-> input.metadata,
     timestamp |-> IF "timestamp" \in DOMAIN input THEN input.timestamp ELSE time,
     tags |-> input.tags]

\* the entry save builds
NewEntry(input, time, suffix) ==
    [id |-> GenerateId(time, suffix),
     content |-> input.content,
     metadata |-> input.metadata,
     timestamp |-> time,
     tags |-> input.tags]

\* variant: `input.metadata ??= {}` before the entry is built
BodySave_DefaultsMetadata(c, suffix) ==
    LET i == calls[c].inst
        given == calls[c].input
        input == [given EXCEPT !.metadata = IF given.metadata = NoMetadata
                                            THEN Metadata({}) ELSE given.metadata]
        entry == NewEntry(input, now, suffix)
    IN /\ calls[c].op = "save" /\ calls[c].pc = "body"
       /\ memories' = [memories EXCEPT ![i] = MapSet(memories[i], entry)]
       /\ calls' = [calls EXCEPT ![c].pc = "persist", ![c].entry = entry,
                                 ![c].mutated = TRUE, ![c].input = input]
       /\ UNCHANGED <<disk, loaded, now, last, platform>>

\* save, from ensureLoaded to `await persist()`
BodySave(c, suffix) ==
    LET i == calls[c].inst
        entry == NewEntry(calls[c].input, now, suffix)
    IN /\ calls[c].op = "save" /\ calls[c].pc = "body"
       /\ memories' = [memories EXCEPT ![i] = MapSet(memories[i], entry)]
       /\ calls' = [calls EXCEPT ![c].pc = "persist", ![c].entry = entry,
                                 ![c].mutated = TRUE]
       /\ UNCHANGED <<disk, loaded, now, last, platform>>

\* search, from ensureLoaded to its return
BodySearch(c) ==
    LET i == calls[c].inst
    IN /\ calls[c].op = "search" /\ calls[c].pc = "body"
       /\ calls' = [calls EXCEPT ![c].pc = "resolved",
                       ![c].results = SearchEntries(memories[i], <<"A", "T">>, NoOptions)]
       /\ UNCHANGED <<disk, memories, loaded, now, last, platform>>

\* get, from ensureLoaded to its return
BodyGet(c) ==
    LET i == calls[c].inst
    IN /\ calls[c].op = "get" /\ calls[c].pc = "body"
       /\ calls' = [calls EXCEPT ![c].pc = "resolved",
                                 ![c].entry = MapGet(memories[i], calls[c].id)]
       /\ UNCHANGED <<disk, memories, loaded, now, last, platform>>

\* list, from ensureLoaded to its return
BodyList(c) ==
    LET i == calls[c].inst
    IN /\ calls[c].op = "list" /\ calls[c].pc = "body"
       /\ calls' = [calls EXCEPT ![c].pc = "resolved",
                                 ![c].results = ListEntries(memories[i], NoOptions)]
       /\ UNCHANGED <<disk, memories, loaded, now, last, platform>>

\* delete, from ensureLoaded to the throw or to `await persist()`
BodyDelete(c) ==
    LET i == calls[c].inst
        id == calls[c].id
    IN /\ calls[c].op = "delete" /\ calls[c].pc = "body"
       /\ IF MapHas(memories[i], id)
          THEN /\ memories' = [memories EXCEPT ![i] = MapDelete(memories[i], id)]
               /\ calls' = [calls EXCEPT ![c].pc = "persist", ![c].mutated = TRUE]
          ELSE /\ calls' = [calls EXCEPT ![c].pc = "rejected",
                                         ![c].error = Some(NotFound(id))]
               /\ UNCHANGED memories
       /\ UNCHANGED <<disk, loaded, now, last, platform>>

\* variant: persist waits until no other call is in flight
Persist_AfterOthers(c) ==
    LET i == calls[c].inst
    IN /\ calls[c].pc = "persist"
       /\ \A d \in Slots \ {c} : calls[d].pc \in {"idle", "resolved", "rejected"}
       /\ calls' = [calls EXCEPT ![c].pc = "writeFile",
                                 ![c].data = Some(Stringify(memories[i])),
                                 ![c].writes = @ + 1]
       /\ UNCHANGED <<disk, memories, loaded, now, last, platform>>

\* variant: only the entry just saved is handed to writeFile
Persist_Delta(c) ==
    LET i == calls[c].inst
    IN /\ calls[c].pc = "persist"
       /\ calls' = [calls EXCEPT ![c].pc = "writeFile",
                       ![c].data = Some(Stringify(IF calls[c].op = "save"
                                                  THEN <<calls[c].entry>>
                                                  ELSE memories[i])),
                       ![c].writes = @ + 1]
       /\ UNCHANGED <<disk, memories, loaded, now, last, platform>>

\* persist, up to the call of fs.writeFile: the index is serialised now
Persist(c) ==
    LET i == calls[c].inst
    IN /\ calls[c].pc = "persist"
       /\ calls' = [calls EXCEPT ![c].pc = "writeFile",
                                 ![c].data = Some(Stringify(memories[i])),
                                 ![c].writes = @ + 1]
       /\ UNCHANGED <<disk, memories, loaded, now, last, platform>>

\* variant: a failed write takes the mutation back
WriteFile_Rollback(c, outcome) ==
    LET code == IF disk.dir THEN outcome ELSE "ENOENT"
        i == calls[c].inst
    IN /\ calls[c].pc = "writeFile"
       /\ \/ /\ code = "ok"
             /\ disk' = [disk EXCEPT !.file = calls[c].data]
             /\ calls' = [calls EXCEPT ![c].pc = "resolved"]
             /\ UNCHANGED memories
          \/ /\ code # "ok"
             /\ disk' = IF code = "ENOSPC" THEN [disk EXCEPT !.file = Some(Unparsable)]
                        ELSE disk
             /\ memories' = [memories EXCEPT ![i] =
                                 IF calls[c].op = "save" THEN MapDelete(@, calls[c].entry.id)
                                 ELSE @]
             /\ calls' = [calls EXCEPT ![c].pc = "rejected",
                                       ![c].failure = Some(FsError("open", code)),
                                       ![c].error = Some(FsError("open", code))]
       /\ UNCHANGED <<loaded, now, last, platform>>

\* await fs.writeFile(filePath, text): the text replaces the file; without
\* the directory it fails with ENOENT, EACCES leaves the file as it was,
\* ENOSPC leaves it truncated
WriteFile(c, outcome) ==
    LET code == IF disk.dir THEN outcome ELSE "ENOENT"
    IN /\ calls[c].pc = "writeFile"
       /\ \/ /\ code = "ok"
             /\ disk' = [disk EXCEPT !.file = calls[c].data]
             /\ calls' = [calls EXCEPT ![c].pc = "resolved"]
          \/ /\ code # "ok"
             /\ disk' = IF code = "ENOSPC" THEN [disk EXCEPT !.file = Some(Unparsable)]
                        ELSE disk
             /\ calls' = [calls EXCEPT ![c].pc = "rejected",
                                       ![c].failure = Some(FsError("open", code)),
                                       ![c].error = Some(FsError("open", code))]
       /\ UNCHANGED <<memories, loaded, now, last, platform>>

InitSteps(disks) ==
    /\ disk \in disks
    /\ memories = [i \in Instances |-> <<>>]
    /\ loaded = [i \in Instances |-> FALSE]
    /\ now = FirstInstant
    /\ last = Call("none", "owner")
    /\ calls = [c \in Slots |-> NoCall]
    /\ InitPlatform

\* Overlapping calls: one operation per slot is issued on the owner, without
\* awaiting the one in flight; the file system does as asked.
NextOverlap ==
    \/ Tick
    \/ \E c \in Slots, i \in Owner, inv \in Invocations :
          calls[c].pc = "idle" /\ Invoke(c, i, inv)
    \/ \E c \in Slots : Mkdir(c, "ok")
    \/ \E c \in Slots : ReadFile(c, "ok")
    \/ \E c \in Slots : Parse(c)
    \/ \E c \in Slots, suffix \in Suffixes : BodySave(c, suffix)
    \/ \E c \in Slots : BodySearch(c)
    \/ \E c \in Slots : BodyGet(c)
    \/ \E c \in Slots : BodyList(c)
    \/ \E c \in Slots : BodyDelete(c)
    \/ \E c \in Slots : Persist(c)
    \/ \E c \in Slots : WriteFile(c, "ok")

SpecOverlap == InitSteps({NoFile, SeedFile}) /\ [][NextOverlap]_vars

\* Failing file system: operations are issued one at a time, and each call of
\* fs/promises may fail.
One == {1}

NextFaults ==
    \/ \E c \in One, i \in Owner, inv \in Invocations : Invoke(c, i, inv)
    \/ \E c \in One, outcome \in {"ok", "EACCES", "ENOENT"} : Mkdir(c, outcome)
    \/ \E c \in One, outcome \in {"ok", "EACCES"} : ReadFile(c, outcome)
    \/ \E c \in One : Parse(c)
    \/ \E c \in One, suffix \in Suffixes : BodySave(c, suffix)
    \/ \E c \in One : BodySearch(c)
    \/ \E c \in One : BodyGet(c)
    \/ \E c \in One : BodyList(c)
    \/ \E c \in One : BodyDelete(c)
    \/ \E c \in One : Persist(c)
    \/ \E c \in One, outcome \in {"ok", "EACCES", "ENOSPC"} : WriteFile(c, outcome)

SpecFaults == InitSteps({NoFile, SeedFile, BadFile}) /\ [][NextFaults]_vars

----------------------------------------------------------------------------
(* Two providers on one storage path *)

\* the input the two providers save
SharedInput == [content |-> <<"C", "a", "t">>, metadata |-> NoMetadata, tags |-> <<"alpha">>]

\* the reads issued on the owner: <<operation, input, id>>
Reads == {<<"list", NoInput, NonExistentId>>}

\* Two providers constructed on the same path.  The owner is read by calls
\* that may overlap (one per slot) and saves; the sibling lists, saves and
\* deletes, each of its calls awaited before anything else runs.
NextSiblings ==
    \/ \E c \in Slots, inv \in Reads : calls[c].pc = "idle" /\ Invoke(c, "owner", inv)
    \/ \E c \in Slots : Mkdir(c, "ok")
    \/ \E c \in Slots : ReadFile(c, "ok")
    \/ \E c \in Slots : Parse(c)
    \/ \E c \in Slots : BodyList(c)
    \/ \E suffix \in Suffixes : Save("owner", SharedInput, suffix)
    \/ List("sibling", NoOptions)
    \/ \E suffix \in Suffixes : Save("sibling", SharedInput, suffix)
    \/ Delete("sibling", SeedEntry.id)

SpecSiblings == InitSteps({NoFile, SeedFile}) /\ [][NextSiblings]_vars

----------------------------------------------------------------------------
(* registerMemoryProvider, createMemoryProvider and the MCP stub *)

\* the value of a property that is not there
Undefined == [undefined |-> TRUE]

\* a provider object of the caller's
MockProvider == [name |-> "mock", object |-> "customProvider"]

\* MemoryConfig values; the provider of a custom configuration is whatever
\* the caller put there
Configs ==
    { [type |-> "file", path |-> ".claude/memory"],
      [type |-> "mcp", serverName |-> "memory"],
      [type |-> "custom", provider |-> MockProvider],
      [type |-> "custom", provider |-> Undefined],
      [type |-> "my-custom-type"] }

\* what the built-in constructors and a registered factory return
FileProvider(config) ==
    [name |-> <<"file">>, builtIn |-> "createFileProvider", config |-> config]
McpProvider(config) ==
    [name |-> <<"mcp:", config.serverName>>, builtIn |-> "createMcpProvider",
     config |-> config]
Apply(factory, config) == [returnedBy |-> factory, config |-> config]

Returned(value) == [ok |-> TRUE, value |-> value, error |-> None]
Thrown(error) == [ok |-> FALSE, value |-> Undefined, error |-> Some(error)]
UnknownType(type) == [message |-> "Unknown memory provider type", type |-> type]

\* variant: the registry is consulted before the custom branch
ResolveProvider_RegistryFirst(config, registry) ==
    IF registry[config.type] # None
    THEN Returned(Apply(registry[config.type][1], config))
    ELSE IF config.type = "custom" THEN Returned(config.provider)
    ELSE IF config.type = "file" THEN Returned(FileProvider(config))
    ELSE IF config.type = "mcp" THEN Returned(McpProvider(config))
    ELSE Thrown(UnknownType(config.type))

\* variant: the built-in types are constructed before the registry is consulted
ResolveProvider_BuiltInsFirst(config, registry) ==
    IF config.type = "custom" THEN Returned(config.provider)
    ELSE IF config.type = "file" THEN Returned(FileProvider(config))
    ELSE IF config.type = "mcp" THEN Returned(McpProvider(config))
    ELSE IF registry[config.type] # None
    THEN Returned(Apply(registry[config.type][1], config))
    ELSE Thrown(UnknownType(config.type))

\* variant: an unrecognised type falls back to the file provider
ResolveProvider_FileByDefault(config, registry) ==
    IF config.type = "custom" THEN Returned(config.provider)
    ELSE IF registry[config.type] # None
    THEN Returned(Apply(registry[config.type][1], config))
    ELSE IF config.type = "mcp" THEN Returned(McpProvider(config))
    ELSE Returned(FileProvider(config))

\* the body of createMemoryProvider
ResolveProvider(config, registry) ==
    IF config.type = "custom" THEN Returned(config.provider)
    ELSE IF registry[config.type] # None
    THEN Returned(Apply(registry[config.type][1], config))
    ELSE IF config.type = "file" THEN Returned(FileProvider(config))
    ELSE IF config.type = "mcp" THEN Returned(McpProvider(config))
    ELSE Thrown(UnknownType(config.type))

\* variant: a name that is registered keeps its first factory
RegisterMemoryProvider_KeepFirst(type, factory) ==
    /\ providerRegistry' = IF providerRegistry[type] = None
                           THEN [providerRegistry EXCEPT ![type] = Some(factory)]
                           ELSE providerRegistry
    /\ reply' = [op |-> "registerMemoryProvider", type |-> type, factory |-> factory,
                 previous |-> providerRegistry[type]]
    /\ UNCHANGED <<engine, agents, arrays>>

\* registerMemoryProvider(type, factory): providerRegistry.set(type, factory)
RegisterMemoryProvider(type, factory) ==
    /\ providerRegistry' = [providerRegistry EXCEPT ![type] = Some(factory)]
    /\ reply' = [op |-> "registerMemoryProvider", type |-> type, factory |-> factory,
                 previous |-> providerRegistry[type]]
    /\ UNCHANGED <<engine, agents, arrays>>

\* createMemoryProvider(config)
CreateMemoryProvider(config) ==
    LET result == ResolveProvider(config, providerRegistry)
    IN /\ reply' = [op |-> "createMemoryProvider", config |-> config,
                    ok |-> result.ok, value |-> result.value, error |-> result.error]
       /\ UNCHANGED <<engine, providerRegistry, agents, arrays>>

\* the error messages of the stub: the server, the runtime that is missing
\* and, in save only, the sentence that points to the file provider
McpError(op, serverName) ==
    [provider |-> <<"MCP provider", serverName>>,
     requires |-> "Claude Code runtime",
     advice |-> IF op = "save"
                THEN Some("Use the file provider for standalone execution, or run within Claude Code.")
                ELSE None]

StubOps == {"save", "search", "get", "list", "delete"}

\* the provider the caller holds: the one createMemoryProvider returned last
Held ==
    IF reply.op = "createMemoryProvider" /\ reply.ok THEN reply.value
    ELSE IF reply.op \in StubOps THEN reply.on
    ELSE Undefined

\* the arguments the operations of a provider are called with
StubArguments ==
    [save |-> CallInputs, search |-> Queries, get |-> CallIds,
     list |-> {NoOptions}, delete |-> CallIds]

\* an operation of the provider createMcpProvider returned
StubCall(op, arg) ==
    /\ "builtIn" \in DOMAIN Held
    /\ Held.builtIn = "createMcpProvider"
    /\ reply' = [op |-> op, on |-> Held, arg |-> arg, ok |-> FALSE,
                 value |-> Undefined,
                 error |-> Some(McpError(op, Held.config.serverName))]
    /\ UNCHANGED <<engine, providerRegistry, agents, arrays>>

\* The factory: factories are registered, providers are created from
\* configurations, and the operations of the stub are called.
NextFactory ==
    \/ \E type \in TypeNames, factory \in Factories : RegisterMemoryProvider(type, factory)
    \/ \E config \in Configs : CreateMemoryProvider(config)
    \/ \E op \in StubOps : \E arg \in StubArguments[op] : StubCall(op, arg)

SpecFactory == Init /\ [][NextFactory]_vars

----------------------------------------------------------------------------
(* MemoryEntrySchema *)

\* JavaScript values handed to the schema, each kind a record of its own
Str(s) == [string |-> s]
Num(n) == [number |-> n]
Null == [null |-> TRUE]
DateOf(t) == [date |-> t, valid |-> TRUE]
\* new Date("not-a-date"): a Date whose time value is NaN
InvalidDate == [date |-> 0, valid |-> FALSE]
Arr(elements) == [array |-> elements]
Obj(keys) == [object |-> keys]

IsString(v) == "string" \in DOMAIN v
IsDate(v) == "date" \in DOMAIN v
IsArray(v) == "array" \in DOMAIN v
IsObject(v) == "object" \in DOMAIN v

\* the values handed to safeParse: objects with each property present in a
\* right or wrong type or absent (Undefined), and values that are no object
SchemaInputs ==
    [id : {Str(""), Str("mem_123"), Num(12345), Undefined},
     content : {Str(""), Str("Test memory"), Undefined},
     metadata : {Undefined, Obj({}), Obj({"string", "number", "nested"}), Null, Arr(<<>>)},
     timestamp : {DateOf(FirstInstant), InvalidDate, Str("not-a-date"), Undefined},
     tags : {Arr(<<>>), Arr(<<Str("tag1"), Str("tag2")>>), Arr(<<Str("valid"), Num(123)>>),
             Str("not-an-array"), Undefined},
     object : {{}}]
    \cup {Null, Str("mem_123")}

Issue(field, index, code) == [field |-> field, index |-> index, code |-> code]

\* variant: z.string().min(1)
ZodString_NonEmpty(v, field, index) ==
    IF ~IsString(v) THEN {Issue(field, index, "invalid_type")}
    ELSE IF v.string = "" THEN {Issue(field, index, "too_small")}
    ELSE {}

\* z.string()
ZodString(v, field, index) ==
    IF IsString(v) THEN {} ELSE {Issue(field, index, "invalid_type")}

\* z.date(): a Date whose time value is NaN is an invalid_date
ZodDate(v, field) ==
    IF ~IsDate(v) THEN {Issue(field, 0, "invalid_type")}
    ELSE IF ~v.valid THEN {Issue(field, 0, "invalid_date")}
    ELSE {}

\* z.array(z.string())
ZodArrayOfString(v, field) ==
    IF ~IsArray(v) THEN {Issue(field, 0, "invalid_type")}
    ELSE UNION {ZodString(v.array[k], field, k) : k \in 1..Len(v.array)}

\* z.record(z.unknown()).optional()
ZodOptionalRecord(v, field) ==
    IF v = Undefined \/ IsObject(v) THEN {}
    ELSE {Issue(field, 0, "invalid_type")}

\* MemoryEntrySchema.safeParse(value)
SafeParse(value) ==
    LET issues ==
            IF ~IsObject(value)
            THEN {Issue("", 0, "invalid_type")}
            ELSE ZodString(value.id, "id", 0)
                 \cup ZodString(value.content, "content", 0)
                 \cup ZodOptionalRecord(value.metadata, "metadata")
                 \cup ZodDate(value.timestamp, "timestamp")
                 \cup ZodArrayOfString(value.tags, "tags")
    IN [success |-> issues = {}, issues |-> issues]

\* a value is validated
Validate(value) ==
    LET result == SafeParse(value)
    IN /\ reply' = [op |-> "safeParse", value |-> value,
                    success |-> result.success, issues |-> result.issues]
       /\ UNCHANGED <<engine, providerRegistry, agents, arrays>>

NextSchema == \E value \in SchemaInputs : Validate(value)

SpecSchema == Init /\ [][NextSchema]_vars

----------------------------------------------------------------------------
(* A storage file another program has written *)

\* JSON.parse yields whatever the text holds: the entries of such a file are
\* JavaScript values as above, their timestamp a string, absent, or else.

IsoText == "2024-01-01T00:00:00.000Z"

\* new Date(value)
NewDate(v) ==
    IF IsString(v) THEN (IF v.string = IsoText THEN DateOf(FirstInstant - 1) ELSE InvalidDate)
    ELSE IF "number" \in DOMAIN v THEN DateOf(v.number)
    ELSE IF v = Null THEN DateOf(0)
    ELSE InvalidDate

WellFormedJson ==
    [id |-> Str("mem_1"), content |-> Str("Test memory"), metadata |-> Undefined,
     timestamp |-> Str(IsoText), tags |-> Arr(<<Str("tag1")>>), object |-> {}]

\* objects found in the array of the file
ForeignEntries ==
    { WellFormedJson,
      [WellFormedJson EXCEPT !.id = Num(12345)],
      [WellFormedJson EXCEPT !.id = Str("mem_2"), !.content = Undefined],
      [WellFormedJson EXCEPT !.id = Str("mem_3"), !.timestamp = Str("not-a-date")],
      [WellFormedJson EXCEPT !.id = Str("mem_4"), !.tags = Str("not-an-array")] }

\* the longest array of a file
MaxForeign == 2

ForeignFiles == UNION {[1..n -> ForeignEntries] : n \in 0..MaxForeign}

\* { ...entry, timestamp: new Date(entry.timestamp) }
ReviveParsed(entry) == [entry EXCEPT !.timestamp = NewDate(entry.timestamp)]

\* for (const entry of entries) memories.set(entry.id, {...})
RECURSIVE PopulateParsed(_, _)
PopulateParsed(m, entries) ==
    IF entries = <<>>
    THEN m
    ELSE PopulateParsed(MapSet(m, ReviveParsed(Head(entries))), Tail(entries))

\* get(id) on a provider whose file is such a file
GetParsed(i, id) ==
    LET index == IF loaded[i] THEN memories[i] ELSE PopulateParsed(memories[i], disk.file[1])
    IN /\ memories' = [memories EXCEPT ![i] = index]
       /\ loaded' = [loaded EXCEPT ![i] = TRUE]
       /\ reply' = [op |-> "get", id |-> id,
                    entry |-> IF \E k \in 1..Len(index) : index[k].id = id
                              THEN index[CHOOSE k \in 1..Len(index) : index[k].id = id]
                              ELSE Null]
       /\ UNCHANGED <<disk, now, last, calls, providerRegistry, agents, arrays>>

InitBoundary ==
    /\ disk \in {[dir |-> TRUE, file |-> Some(f)] : f \in ForeignFiles}
    /\ memories = [i \in Instances |-> <<>>]
    /\ loaded = [i \in Instances |-> FALSE]
    /\ now = FirstInstant
    /\ last = Call("none", "owner")
    /\ calls = [c \in Slots |-> NoCall]
    /\ InitPlatform

NextBoundary ==
    \E i \in Owner, id \in {Str("mem_1"), Str("mem_3"), Str("mem_4"), Str("missing")} :
        GetParsed(i, id)

SpecBoundary == InitBoundary /\ [][NextBoundary]_vars

----------------------------------------------------------------------------
(* createReviewAgent *)

\* An array is an object: a config holds a reference to its excludePatterns
\* array, and `arrays` holds the elements of every array by reference.

\* the agents created and the patterns pushed, at most
MaxAgents == 3
MaxPushes == 1

DEFAULT_CONFIG ==
    [maxFilesPerReview |-> 20,
     excludePatterns |-> DefaultsRef,
     includePositives |-> TRUE,
     minSeverity |-> "nitpick"]

\* Partial<ReviewerConfig> values passed as configOverrides; <<>> is {}
NoOverrides == <<>>
ConfigOverrides ==
    { NoOverrides,
      [maxFilesPerReview |-> 10],
      [maxFilesPerReview |-> 5, excludePatterns |-> CustomRef],
      [includePositives |-> FALSE, minSeverity |-> "blocker"] }

\* { ...defaults, ...overrides }: the properties are copied, not the objects
\* they refer to
Overlay(defaults, overrides) ==
    [f \in DOMAIN defaults |->
        IF f \in DOMAIN overrides THEN overrides[f] ELSE defaults[f]]

\* createReviewAgent(configOverrides); the caller's array is passed to one agent
CreateReviewAgent(overrides) ==
    /\ Len(agents) < MaxAgents
    /\ "excludePatterns" \in DOMAIN overrides =>
          \A k \in 1..Len(agents) :
              agents[k].config.excludePatterns # overrides.excludePatterns
    /\ agents' = Append(agents, [overrides |-> overrides,
                                 config |-> Overlay(DEFAULT_CONFIG, overrides)])
    /\ reply' = [op |-> "createReviewAgent", agent |-> Len(agents) + 1]
    /\ UNCHANGED <<engine, providerRegistry, arrays>>

\* the caller writes a property of the config of agent k
AssignMaxFiles(k, n) ==
    /\ agents[k].config.maxFilesPerReview # n
    /\ agents' = [agents EXCEPT ![k].config.maxFilesPerReview = n]
    /\ reply' = [op |-> "assign", agent |-> k]
    /\ UNCHANGED <<engine, providerRegistry, arrays>>

\* the caller runs agent.config.excludePatterns.push(pattern) on agent k
PushPattern(k, pattern) ==
    LET ref == agents[k].config.excludePatterns
    IN /\ Len(arrays[ref]) < Len(DefaultExcludePatterns) + MaxPushes
       /\ arrays' = [arrays EXCEPT ![ref] = Append(@, pattern)]
       /\ reply' = [op |-> "push", agent |-> k]
       /\ UNCHANGED <<engine, providerRegistry, agents>>

\* Review agents are created with and without overrides, and their callers
\* change the configs they were given.
NextReviewer ==
    \/ \E overrides \in ConfigOverrides : CreateReviewAgent(overrides)
    \/ \E k \in 1..Len(agents) : AssignMaxFiles(k, 1)
    \/ \E k \in 1..Len(agents) : PushPattern(k, "vendor/**")

SpecReviewer == Init /\ [][NextReviewer]_vars

----------------------------------------------------------------------------
(* formatReviewAsMarkdown *)

\* Strings are strings; an emoji is written by its name between colons.

\* a FeedbackItem; line, explanation and suggestedFix are optional
FeedbackItem(severity, line, explanation, suggestedFix) ==
    [severity |-> severity, file |-> "auth.ts", line |-> line,
     message |-> "Bug here", explanation |-> explanation, suggestedFix |-> suggestedFix]

FeedbackItems ==
    {FeedbackItem(severity, line, None, None) :
        severity \in {"blocker", "suggestion", "nitpick"}, line \in {None, Some(0), Some(42)}}
    \cup {FeedbackItem("blocker", Some(0), Some("It breaks login"), Some("Check the token")),
          FeedbackItem("nitpick", None, Some(""), Some(""))}

\* the longest feedback list
MaxFeedback == 2

FeedbackLists == UNION {[1..n -> FeedbackItems] : n \in 0..MaxFeedback}

BaseReview ==
    [summary |-> "approve", overview |-> "Looks good", feedback |-> <<>>,
     positives |-> <<>>, questions |-> <<>>,
     requiresHumanReview |-> FALSE, humanReviewReason |-> None]

Reviews ==
    {[BaseReview EXCEPT !.feedback = f] : f \in FeedbackLists}
    \cup {[BaseReview EXCEPT !.summary = "request_changes", !.positives = <<"Clear names">>,
                             !.requiresHumanReview = TRUE],
          [BaseReview EXCEPT !.summary = "needs_discussion", !.questions = <<"Why a cache?">>,
                             !.requiresHumanReview = TRUE,
                             !.humanReviewReason = Some("Touches authentication")]}

\* the truth value of an optional number and of an optional string in a condition
TruthyNumber(v) == v # None /\ v[1] # 0
TruthyString(v) == v # None /\ v[1] # ""

\* item.line ? `${item.file}:${item.line}` : item.file
Location(item) ==
    IF TruthyNumber(item.line) THEN item.file \o ":" \o ToString(item.line[1]) ELSE item.file

ItemText(item, location) ==
    "- **[" \o location \o "]**: " \o item.message
    \o (IF TruthyString(item.explanation)
        THEN "\n  - Why: " \o item.explanation[1] ELSE "")
    \o (IF TruthyString(item.suggestedFix)
        THEN "\n  - Suggestion: " \o item.suggestedFix[1] ELSE "")

FormatFeedbackItem(item) == ItemText(item, Location(item))

SummaryText ==
    [approve |-> ":check: Approve",
     request_changes |-> ":repeat: Request Changes",
     needs_discussion |-> ":speech: Needs Discussion"]

\* a heading, a blank line, the items and a blank line; nothing for no items
Section(heading, texts) ==
    IF texts = <<>> THEN <<>> ELSE <<heading, "">> \o texts \o <<"">>

Items(feedback, severity) ==
    LET chosen == SelectSeq(feedback, LAMBDA f : f.severity = severity)
    IN [k \in 1..Len(chosen) |-> FormatFeedbackItem(chosen[k])]

Bullets(texts) == [k \in 1..Len(texts) |-> "- " \o texts[k]]

\* the array `lines` at the return statement
ReviewLines(review) ==
    <<"## Summary", SummaryText[review.summary], "", "## Overview", review.overview, "">>
    \o Section("## :red: Blockers", Items(review.feedback, "blocker"))
    \o Section("## :yellow: Suggestions", Items(review.feedback, "suggestion"))
    \o Section("## :green: Nitpicks", Items(review.feedback, "nitpick"))
    \o Section("## What I Liked", Bullets(review.positives))
    \o Section("## Questions", Bullets(review.questions))
    \o (IF review.requiresHumanReview
        THEN <<"---",
               ":warning: **Human review required**: "
                  \o (IF review.humanReviewReason # None THEN review.humanReviewReason[1]
                      ELSE "See blockers above")>>
        ELSE <<>>)

\* lines.join("\n")
RECURSIVE Join(_)
Join(lines) ==
    IF lines = <<>> THEN ""
    ELSE IF Len(lines) = 1 THEN lines[1]
    ELSE lines[1] \o "\n" \o Join(Tail(lines))

\* formatReviewAsMarkdown(review)
FormatReviewAsMarkdown(review) ==
    /\ reply' = [op |-> "formatReviewAsMarkdown", review |-> review,
                 lines |-> ReviewLines(review), text |-> Join(ReviewLines(review))]
    /\ UNCHANGED <<engine, providerRegistry, agents, arrays>>

NextFormat == \E review \in Reviews : FormatReviewAsMarkdown(review)

SpecFormat == Init /\ [][NextFormat]_vars

----------------------------------------------------------------------------
(* Progress *)

\* the calls issued while progress is observed: one of each operation
ProgressCalls ==
    { <<"save", SharedInput, NonExistentId>>,
      <<"search", NoInput, NonExistentId>>,
      <<"get", NoInput, SeedEntry.id>>,
      <<"list", NoInput, NonExistentId>>,
      <<"delete", NoInput, SeedEntry.id>> }

\* the call in slot c runs to its next await, the file-system call it awaits
\* returning with a result or an error
Resume(c) ==
    \/ \E outcome \in {"ok", "EACCES", "ENOENT"} : Mkdir(c, outcome)
    \/ \E outcome \in {"ok", "EACCES"} : ReadFile(c, outcome)
    \/ Parse(c)
    \/ \E suffix \in Suffixes : BodySave(c, suffix)
    \/ BodySearch(c)
    \/ BodyGet(c)
    \/ BodyList(c)
    \/ BodyDelete(c)
    \/ Persist(c)
    \/ \E outcome \in {"ok", "EACCES", "ENOSPC"} : WriteFile(c, outcome)

\* Progress: a stub provider is created and called once, then calls are
\* issued on the owner, overlapping; every file-system call returns sooner
\* or later, with a result or an error.
NextProgress ==
    \/ /\ \A c \in Slots : calls[c].pc = "idle"
       /\ reply = NoReply
       /\ CreateMemoryProvider([type |-> "mcp", serverName |-> "memory"])
    \/ \E op \in StubOps :
          /\ \A c \in Slots : calls[c].pc = "idle"
          /\ reply.op = "createMemoryProvider"
          /\ StubCall(op, NoOptions)
    \/ \E c \in Slots, inv \in ProgressCalls : calls[c].pc = "idle" /\ Invoke(c, "owner", inv)
    \/ \E c \in Slots : Resume(c)

SpecProgress ==
    /\ InitSteps({NoFile, SeedFile, BadFile})
    /\ [][NextProgress]_vars
    /\ \A c \in Slots : WF_vars(Resume(c))


----------------------------------------------------------------------------
(* Properties *)

Range(seq) == {seq[k] : k \in 1..Len(seq)}

\* the last call has completed on an instance that is still the live one
Completed(op) == last.op = op /\ loaded[last.inst]

\* the metadata survives JSON unchanged: strings, finite numbers, booleans, null
JsonRepresentable(m) ==
    \A p \in m.props :
        \/ p[2] \in {"string", "boolean", "null"}
        \/ p[2] = "number" /\ p[3] \notin {"NaN", "Infinity", "-Infinity"}

\* C1 (as claimed): a get of the id a save has just returned yields an entry
\* with the input's content, tags and metadata and the returned timestamp,
\* on the saving instance and on a fresh instance that reloads from disk.
C1_RoundTripAnyInput ==
    (Completed("get") /\ last.prior.op = "save") =>
        /\ last.entry # NullEntry
        /\ last.entry.content = last.prior.input.content
        /\ last.entry.tags = last.prior.input.tags
        /\ last.entry.metadata = last.prior.input.metadata
        /\ last.entry.timestamp = last.prior.entry.timestamp

\* C1 (amended): the same, the metadata being the input's on the saving
\* instance and, on a fresh instance, whenever every metadata value is
\* representable in JSON.
C1_RoundTrip ==
    (Completed("get") /\ last.prior.op = "save") =>
        /\ last.entry # NullEntry
        /\ last.entry.content = last.prior.input.content
        /\ last.entry.tags = last.prior.input.tags
        /\ (~last.fresh \/ JsonRepresentable(last.prior.input.metadata))
              => last.entry.metadata = last.prior.input.metadata
        /\ last.entry.timestamp = last.prior.entry.timestamp

\* a fresh instance has reloaded a saved entry with metadata from disk
C1_Witness ==
    /\ Completed("get") /\ last.prior.op = "save" /\ last.fresh
    /\ last.prior.input.metadata.defined
    /\ last.prior.input.metadata.props # {}
    /\ JsonRepresentable(last.prior.input.metadata)
    /\ last.entry.timestamp > FirstInstant

C3_SequentialEffects ==
    Completed("get") =>
        /\ (last.prior.op = "save" /\ ~last.fresh) => last.entry = last.prior.entry
        /\ (last.prior.op = "save" /\ last.fresh) =>
              (last.entry # NullEntry /\ last.entry.id = last.id)
        /\ (last.prior.op = "delete" /\ last.prior.ok) => last.entry = NullEntry

\* a brand-new instance was asked for an id deleted just before, while the
\* file still holds another entry
C3_Witness ==
    /\ Completed("get") /\ last.fresh
    /\ last.prior.op = "delete" /\ last.prior.ok
    /\ last.entry = NullEntry
    /\ Len(memories[last.inst]) = 1

\* C4 (as claimed): every save returns an id that no entry of the index has,
\* so the index grows by exactly one entry and every entry keeps its id.
C4_SaveNeverReplaces ==
    [][LET i == last'.inst
           index == IndexAfterLoad(memories[i], loaded[i], disk)
       IN (last'.op = "save" /\ \E suffix \in Suffixes : Save(i, last'.input, suffix)) =>
             /\ last'.entry.id \notin MapIds(index)
             /\ Len(memories'[i]) = Len(index) + 1
             /\ \A k \in 1..Len(index) : memories'[i][k].id = index[k].id]_vars

\* C5 (as claimed): as long as an id stays in an instance's index, no
\* operation changes the entry stored under it.
C5_EntriesImmutable ==
    [][\A i \in Instances :
          \A id \in MapIds(memories[i]) \cap MapIds(memories'[i]) :
              MapGet(memories'[i], id) = MapGet(memories[i], id)]_vars

\* C6: a delete of an id that is not in the index is rejected with the
\* not-found error carrying that id, whatever the index holds and however
\* often it is attempted; it leaves the index as it was and does not write
\* the storage file.
C6_DeleteUnknownFails ==
    [][LET i == last'.inst
           id == last'.id
           index == IndexAfterLoad(memories[i], loaded[i], disk)
       IN (last'.op = "delete" /\ Delete(i, id) /\ id \notin MapIds(index)) =>
             /\ ~last'.ok
             /\ last'.error = Some(<<"Memory not found", id>>)
             /\ memories'[i] = index
             /\ disk'.file = disk.file]_vars

\* the delete of an id was re-attempted right after it had succeeded, other
\* entries being stored
C6_Witness ==
    /\ Completed("delete") /\ ~last.ok
    /\ last.prior.op = "delete" /\ last.prior.ok
    /\ last.error = Some(<<"Memory not found", last.id>>)
    /\ Len(memories[last.inst]) >= 1

\* C7: get resolves, for an id in the index to the entry stored under it,
\* and for any other id to null; it is never rejected.
C7_GetIsExactLookup ==
    Completed("get") =>
        LET index == memories[last.inst]
            stored == {e \in Range(index) : e.id = last.id}
        IN /\ last.ok /\ last.error = None
           /\ stored # {} => last.entry \in stored
           /\ stored = {} => last.entry = NullEntry

\* a get of a generated id that is not stored resolved to null on a non-empty index
C7_Witness ==
    /\ Completed("get") /\ last.ok
    /\ last.entry = NullEntry
    /\ last.id[1] = "mem"
    /\ Len(memories[last.inst]) >= 1

\* what the options and the query ask of an entry, stated on the entry alone
MatchesQuery(e, query) ==
    \E k \in 0..(Len(e.content) - Len(query)) :
        \A j \in 1..Len(query) : ToLowerChar(e.content[k + j]) = ToLowerChar(query[j])
HasEveryTag(e, o) == o.tags # None => Range(o.tags[1]) \subseteq Range(e.tags)
InDateRange(e, o) ==
    /\ o.since # None => e.timestamp >= o.since[1]
    /\ o.until # None => e.timestamp <= o.until[1]
Satisfies(e, l) ==
    /\ l.op = "search" => MatchesQuery(e, l.query)
    /\ HasEveryTag(e, l.options)
    /\ InDateRange(e, l.options)

CompletedQuery == Completed("search") \/ Completed("list")

\* C8: search and list resolve, and to the empty sequence when no entry of
\* the index satisfies the query and the filters.
C8_EmptyWhenNothingMatches ==
    CompletedQuery =>
        /\ last.ok /\ last.error = None
        /\ (\A e \in Range(memories[last.inst]) : ~Satisfies(e, last))
              => last.results = <<>>

\* a search on a non-empty index matched nothing
C8_Witness ==
    /\ Completed("search") /\ last.ok
    /\ last.results = <<>>
    /\ Len(memories[last.inst]) = MaxEntries

\* C9: with a non-empty tag filter every returned entry carries every listed
\* tag; with the filter absent or empty (and no limit in force) every entry
\* that satisfies the query and the date bounds is returned, whatever its tags.
C9_TagFilterIsAnd ==
    CompletedQuery =>
        LET o == last.options
            tagless == [last EXCEPT !.options.tags = None]
        IN /\ (o.tags # None /\ o.tags[1] # <<>>) =>
                 \A r \in Range(last.results) :
                     \A k \in 1..Len(o.tags[1]) : \E n \in 1..Len(r.tags) : r.tags[n] = o.tags[1][k]
           /\ ((o.tags = None \/ o.tags[1] = <<>>) /\ o.limit = None) =>
                 \A e \in Range(memories[last.inst]) :
                     Satisfies(e, tagless) => e \in Range(last.results)

\* the filter [alpha, beta] left out an entry tagged [alpha] and kept another
C9_Witness ==
    /\ Completed("list")
    /\ last.options.tags = Some(<<"alpha", "beta">>)
    /\ \E e \in Range(memories[last.inst]) : e.tags = <<"alpha">>
    /\ Len(last.results) = 1

\* C10: every result of list and search is ordered by timestamp, newest
\* first: of two positions the earlier holds the greater or equal timestamp.
C10_NewestFirst ==
    CompletedQuery =>
        \A a, b \in 1..Len(last.results) :
            a < b => last.results[a].timestamp >= last.results[b].timestamp

\* a search returned two entries of different timestamps
C10_Witness ==
    /\ Completed("search")
    /\ Len(last.results) = 2
    /\ last.results[1].timestamp > last.results[2].timestamp

\* the entries of the index that satisfy the query and the filters of the last call
Satisfying == {e \in Range(memories[last.inst]) : Satisfies(e, last)}

\* C11: with a positive limit N and M entries satisfying the query and the
\* filters, search and list return Min(N, M) of them, each once: all of them
\* when M <= N, and when M > N exactly N, none left out being strictly more
\* recent than a returned one.
C11_LimitKeepsMostRecent ==
    (CompletedQuery /\ last.options.limit # None /\ last.options.limit[1] > 0) =>
        LET N == last.options.limit[1]
            M == Cardinality(Satisfying)
            returned == Range(last.results)
        IN /\ returned \subseteq Satisfying
           /\ Cardinality(returned) = Len(last.results)
           /\ M <= N => returned = Satisfying
           /\ M > N =>
                 /\ Len(last.results) = N
                 /\ \A e \in Satisfying \ returned :
                        \A r \in returned : e.timestamp <= r.timestamp

\* list with limit 1 returned the more recent of two entries
C11_Witness ==
    /\ Completed("list")
    /\ last.options.limit = Some(1)
    /\ Cardinality(Satisfying) = 2
    /\ Len(last.results) = 1
    /\ \E e \in Satisfying : e.timestamp < last.results[1].timestamp

\* C12: with the limit absent, zero or negative, search and list return every
\* entry that satisfies the query and the filters, each once.
C12_NonPositiveLimitIsUnlimited ==
    (CompletedQuery /\ (last.options.limit = None \/ last.options.limit[1] <= 0)) =>
        /\ Range(last.results) = Satisfying
        /\ Len(last.results) = Cardinality(Satisfying)

\* a search with limit 0, and one with limit -1, returned two entries
C12_Witness ==
    /\ Completed("search")
    /\ last.options.limit \in {Some(0), Some(-1)}
    /\ Len(last.results) = 2

\* C13: every entry search returns contains the query, letter case ignored,
\* as a contiguous substring of its content; and without filters and limit
\* every entry of the index that does is returned.
C13_CaseInsensitiveSubstring ==
    Completed("search") =>
        /\ \A r \in Range(last.results) : MatchesQuery(r, last.query)
        /\ last.options = NoOptions =>
              \A e \in Range(memories[last.inst]) :
                  MatchesQuery(e, last.query) => e \in Range(last.results)

\* the query AT found the content Cat and left another entry out
C13_Witness ==
    /\ Completed("search")
    /\ last.query = <<"A", "T">>
    /\ \E r \in Range(last.results) : r.content = <<"C", "a", "t">>
    /\ \E e \in Range(memories[last.inst]) : e \notin Range(last.results)

C15_SearchIsFilteredList ==
    Completed("search") =>
        LET o == last.options
            listed == ListEntries(memories[last.inst], [o EXCEPT !.limit = None])
            restricted == SelectSeq(listed, LAMBDA e : MatchesQuery(e, last.query))
            cut == IF o.limit # None /\ o.limit[1] > 0
                   THEN SubSeq(restricted, 1, Min(o.limit[1], Len(restricted)))
                   ELSE restricted
        IN /\ last.results = cut
           /\ last.query = <<>> => last.results = ListEntries(memories[last.inst], o)

\* a search with limit 1 returned a matching entry that is not the most
\* recent entry of the index
C15_Witness ==
    /\ Completed("search")
    /\ last.options.limit = Some(1)
    /\ Len(last.results) = 1
    /\ \E e \in Range(memories[last.inst]) : e.timestamp > last.results[1].timestamp

\* C16 (as claimed): of the calls issued on an instance, overlapping ones
\* included, at most one runs the load to its end; every other call skips it.
C16_LoadsOnce ==
    \A i \in Instances :
        Cardinality({c \in Slots : calls[c].inst = i /\ calls[c].loadedHere}) <= 1

\* C17: a first load that finds no storage file completes without an I/O
\* error and leaves the directory in place and the index empty: no file is
\* created unless the operation is a save, list resolves to the empty
\* sequence, and the only rejection is delete's not-found.
C17_MissingFileLoadsEmpty ==
    [][\A i \in Owner :
          (~loaded[i] /\ loaded'[i] /\ disk.file = None) =>
              /\ disk'.dir
              /\ last'.inst = i /\ last'.fresh
              /\ last'.op # "delete" => (last'.ok /\ last'.error = None)
              /\ last'.op = "delete" => last'.error = Some(<<"Memory not found", last'.id>>)
              /\ last'.op # "save" => (memories'[i] = <<>> /\ disk'.file = None)
              /\ last'.op = "save" => memories'[i] = <<last'.entry>>
              /\ last'.op = "list" => last'.results = <<>>]_vars

\* list on a fresh instance found no file and returned the empty sequence,
\* the directory being in place afterwards
C17_Witness ==
    /\ Completed("list") /\ last.fresh /\ last.ok
    /\ last.results = <<>>
    /\ disk.dir /\ disk.file = None
    /\ memories[last.inst] = <<>>

\* C18 (as claimed): a call in which mkdir, readFile, JSON.parse or writeFile
\* has failed (a missing file aside) is rejected with that failure.
C18_FailuresPropagate ==
    \A c \in Slots :
        calls[c].failure # None =>
            (calls[c].pc = "rejected" /\ calls[c].error = calls[c].failure)

\* C19: the storage file changes only when a writeFile of a save or delete
\* lands, and then to the text that call serialised; a call serialises the
\* whole index, once, after it has changed the index; and a save or delete
\* that resolves has issued exactly one write.
C19_OneWholeWriteAfterMutation ==
    [][/\ disk'.file # disk.file =>
             \E c \in Slots :
                 /\ calls[c].op \in {"save", "delete"} /\ calls[c].pc = "writeFile"
                 /\ calls'[c].pc = "resolved"
                 /\ disk'.file = calls[c].data
       /\ \A c \in Slots :
             /\ calls'[c].writes # calls[c].writes =>
                   /\ calls[c].mutated /\ calls[c].writes = 0 /\ calls'[c].writes = 1
                   /\ calls'[c].data = Some(Stringify(memories[calls[c].inst]))
                   /\ memories' = memories
             /\ (calls'[c].pc = "resolved" /\ calls[c].pc # "resolved"
                   /\ calls[c].op \in {"save", "delete"}) =>
                   (calls[c].writes = 1 /\ disk'.file = calls[c].data)]_vars

\* a save has resolved after its one write, which left the earlier entry and
\* the new one in the file
C19_Witness ==
    \E c \in Slots :
        /\ calls[c].op = "save" /\ calls[c].pc = "resolved"
        /\ calls[c].writes = 1
        /\ disk.file = calls[c].data
        /\ Len(disk.file[1]) = 2

\* C20: the entry a save builds is the one it stores and returns: its id is
\* mem_<time>_<suffix>, time and timestamp are clock readings at or after the
\* call, its content, tags and metadata are the input's (metadata absent
\* when the input has none), and an id or timestamp found in the input is
\* not used.
C20_SaveReturnsStoredEntry ==
    [][\A c \in Slots :
          /\ (calls[c].op = "save" /\ calls[c].pc = "body" /\ calls'[c].pc = "persist") =>
                LET e == calls'[c].entry
                    input == calls[c].input
                IN /\ MapGet(memories'[calls[c].inst], e.id) = e
                   /\ e.id[1] = "mem" /\ e.id[2] >= calls[c].issued /\ e.id[3] \in Suffixes
                   /\ e.timestamp >= calls[c].issued /\ e.timestamp <= now
                   /\ e.content = input.content /\ e.tags = input.tags
                   /\ e.metadata = input.metadata
                   /\ input.metadata = NoMetadata => ~e.metadata.defined
          /\ (calls[c].op = "save" /\ calls[c].pc \in {"persist", "writeFile"}) =>
                calls'[c].entry = calls[c].entry]_vars

\* a save called with an input that carries an id and a timestamp resolved to
\* an entry created after the clock had advanced
C20_Witness ==
    \E c \in Slots :
        /\ calls[c].op = "save" /\ calls[c].pc = "resolved"
        /\ calls[c].input = StrayInput
        /\ calls[c].entry.id[1] = "mem"
        /\ calls[c].entry.timestamp > calls[c].issued

\* C21: no step of a call in flight, from the moment it is issued to the
\* moment it returns or fails, changes the input object the caller passed:
\* its content, tags and metadata stay what they were.
C21_InputUntouched ==
    [][\A c \in Slots :
          calls[c].pc \notin {"idle", "resolved", "rejected"} =>
              /\ calls'[c].input.content = calls[c].input.content
              /\ calls'[c].input.tags = calls[c].input.tags
              /\ calls'[c].input.metadata = calls[c].input.metadata
              /\ calls'[c].input = calls[c].input]_vars

\* a save of an input without metadata has failed in its write, after the
\* entry was put in the index
C21_Witness ==
    \E c \in Slots :
        /\ calls[c].op = "save" /\ calls[c].pc = "rejected"
        /\ calls[c].mutated /\ calls[c].failure # None
        /\ calls[c].input.metadata = NoMetadata
        /\ calls[c].input.tags = <<"alpha">>

\* C22 (as claimed): every operation of the stub is rejected, returns
\* nothing, and its error names the server and the Claude Code runtime and
\* points to the file provider, the same for all five operations.
C22_StubFailsTheSameWay ==
    reply.op \in StubOps =>
        /\ ~reply.ok /\ reply.value = Undefined
        /\ reply.error = Some(McpError("save", reply.on.config.serverName))

\* C23: for a custom configuration createMemoryProvider returns the provider
\* of the configuration itself, whatever it is and whatever the registry holds.
C23_CustomReturnedAsIs ==
    (reply.op = "createMemoryProvider" /\ reply.config.type = "custom") =>
        /\ reply.ok /\ reply.error = None
        /\ reply.value = reply.config.provider

\* a custom provider was returned while a factory was registered under custom
C23_Witness ==
    /\ reply.op = "createMemoryProvider" /\ reply.config.type = "custom"
    /\ reply.value = MockProvider
    /\ providerRegistry["custom"] # None

\* C24: for a discriminator other than custom, a registered factory decides:
\* the result is what it returns for the configuration, for file and mcp
\* too; a built-in engine is constructed only when no factory is registered.
C24_RegistryBeforeBuiltIns ==
    (reply.op = "createMemoryProvider" /\ reply.config.type # "custom") =>
        LET type == reply.config.type
            factory == providerRegistry[type]
        IN /\ factory # None =>
                 (reply.ok /\ reply.value = Apply(factory[1], reply.config))
           /\ (reply.ok /\ "builtIn" \in DOMAIN reply.value) =>
                 /\ factory = None
                 /\ type = "file" => reply.value.builtIn = "createFileProvider"
                 /\ type = "mcp" => reply.value.builtIn = "createMcpProvider"
           /\ (factory = None /\ type \in {"file", "mcp"}) =>
                 (reply.ok /\ "builtIn" \in DOMAIN reply.value)

\* a factory registered under file was used in place of the file engine
C24_Witness ==
    /\ reply.op = "createMemoryProvider" /\ reply.config.type = "file"
    /\ providerRegistry["file"] # None
    /\ reply.ok /\ "returnedBy" \in DOMAIN reply.value

\* C25: createMemoryProvider throws exactly when the discriminator is not
\* custom, has no registered factory and is neither file nor mcp; the error
\* names the discriminator, nothing is returned and the registry is as before.
C25_UnknownTypeFails ==
    [][(reply'.op = "createMemoryProvider" /\ reply' # reply) =>
          LET type == reply'.config.type
              unknown == /\ type # "custom"
                         /\ providerRegistry[type] = None
                         /\ type \notin {"file", "mcp"}
          IN /\ ~reply'.ok <=> unknown
             /\ unknown =>
                   /\ reply'.error = Some([message |-> "Unknown memory provider type",
                                           type |-> type])
                   /\ reply'.value = Undefined
             /\ providerRegistry' = providerRegistry]_vars

\* an unregistered type was refused while other names were registered
C25_Witness ==
    /\ reply.op = "createMemoryProvider" /\ ~reply.ok
    /\ reply.error = Some([message |-> "Unknown memory provider type",
                           type |-> "my-custom-type"])
    /\ providerRegistry["file"] # None

\* C26: the registry changes only by a registration, which puts the given
\* factory under the given name, in place of an earlier one, and leaves every
\* other name as it was; a name that is registered stays registered.
C26_RegistryKeepsLatest ==
    [][/\ \A t \in TypeNames :
             /\ providerRegistry[t] # None => providerRegistry'[t] # None
             /\ providerRegistry'[t] # providerRegistry[t] =>
                   (reply'.op = "registerMemoryProvider" /\ reply'.type = t)
       /\ (reply'.op = "registerMemoryProvider" /\ reply' # reply) =>
             providerRegistry'[reply'.type] = Some(reply'.factory)]_vars

\* a name was registered again with another factory, another name being
\* registered as well
C26_Witness ==
    /\ reply.op = "registerMemoryProvider"
    /\ reply.previous # None /\ reply.previous # Some(reply.factory)
    /\ providerRegistry[reply.type] = Some(reply.factory)
    /\ \E t \in TypeNames \ {reply.type} : providerRegistry[t] # None

\* the step is a mutation the instance itself completes
OwnMutation(i) ==
    /\ last' # last /\ last'.inst = i
    /\ last'.op \in {"save", "delete"} /\ last'.ok

\* C27 (as claimed): an instance never reloads: once it has loaded, its
\* index changes only by its own save and delete, so that nothing a sibling
\* writes to the file afterwards reaches its get, search or list.
C27_NeverReloads ==
    [][\A i \in Instances :
          (loaded[i] /\ ~OwnMutation(i)) => memories'[i] = memories[i]]_vars

\* C28: a mutation an instance completes leaves the file equal to the index
\* of that instance, whatever the file held: what only the other instance
\* has saved is not in the file, what only the other instance has deleted is
\* in it again, and the call reports no error.
C28_LastWriterWins ==
    [][\A i \in Instances :
          OwnMutation(i) =>
              /\ disk'.file = Some(Stringify(memories'[i]))
              /\ last'.error = None
              /\ \A j \in Instances \ {i} :
                    /\ \A e \in Range(memories'[j]) :
                          ~MapHas(memories'[i], e.id) =>
                              JsonOfEntry(e) \notin Range(disk'.file[1])
                    /\ \A e \in Range(memories'[i]) :
                          JsonOfEntry(e) \in Range(disk'.file[1])]_vars

\* both have loaded and mutated; the owner's save came last: the entry the
\* sibling saved is not in the file, the entry the sibling deleted is
C28_Witness ==
    /\ loaded["owner"] /\ loaded["sibling"]
    /\ last.op = "save" /\ last.inst = "owner" /\ ~last.fresh
    /\ disk.file = Some(Stringify(memories["owner"]))
    /\ MapHas(memories["owner"], SeedEntry.id)
    /\ ~MapHas(memories["sibling"], SeedEntry.id)
    /\ \E e \in Range(memories["sibling"]) :
          /\ ~MapHas(memories["owner"], e.id)
          /\ JsonOfEntry(e) \notin Range(disk.file[1])

\* the property is there and is of the type the claim names
WellTyped(value, dateOk(_)) ==
    /\ IsObject(value)
    /\ IsString(value.id)
    /\ IsString(value.content)
    /\ dateOk(value.timestamp)
    /\ IsArray(value.tags)
    /\ \A k \in 1..Len(value.tags.array) : IsString(value.tags.array[k])
    /\ (value.metadata = Undefined \/ IsObject(value.metadata))

\* the required property f is absent or of another type than the schema names
MissingOrMistyped(value, f) ==
    CASE f \in {"id", "content"} -> ~IsString(value[f])
      [] f = "timestamp" -> ~IsDate(value[f])
      [] f = "tags" -> ~IsArray(value[f])

AnyDate(v) == IsDate(v)
DateWithInstant(v) == IsDate(v) /\ v.valid

\* C29 (as claimed): the schema accepts a value exactly when id and content
\* are strings, timestamp is a date value, tags is a sequence of strings and
\* metadata is absent or a mapping.
C29_AcceptsIffWellTyped ==
    reply.op = "safeParse" => (reply.success <=> WellTyped(reply.value, AnyDate))

\* C29 (amended): the schema accepts a value exactly when id and content are
\* strings (the empty string included), timestamp is a Date that holds an
\* instant (neither a string nor an Invalid Date), tags is a sequence of
\* strings (the empty one included) and metadata is absent or a mapping;
\* every other value is a failure that names the properties at fault.
C29_AcceptsIffWellTypedAndDated ==
    reply.op = "safeParse" =>
        /\ reply.success <=> WellTyped(reply.value, DateWithInstant)
        /\ reply.success <=> reply.issues = {}
        /\ IsObject(reply.value) =>
              \A f \in {"id", "content", "timestamp", "tags"} :
                  MissingOrMistyped(reply.value, f) =>
                      /\ ~reply.success
                      /\ \E issue \in reply.issues :
                             issue.field = f /\ issue.code = "invalid_type"

\* a value right in everything but its timestamp, an Invalid Date, was refused
C29_Witness ==
    /\ reply.op = "safeParse" /\ ~reply.success
    /\ reply.value = [id |-> Str(""), content |-> Str(""), metadata |-> Undefined,
                      timestamp |-> InvalidDate, tags |-> Arr(<<>>), object |-> {}]
    /\ reply.issues = {Issue("timestamp", 0, "invalid_date")}

\* a config as its reader sees it: the elements in place of the reference
Resolved(config, heap) == [config EXCEPT !.excludePatterns = heap[config.excludePatterns]]

\* C30 (as claimed): the defaults are never changed; an agent just created
\* has the defaults overlaid with its overrides, so the defaults themselves
\* when it was given none; and a change made through one agent's config
\* changes the config of no other agent.
C30_DefaultsAndAgentsIndependent ==
    [][/\ arrays'[DefaultsRef] = DefaultExcludePatterns
       /\ reply'.op = "createReviewAgent" /\ reply' # reply =>
             LET a == agents'[reply'.agent]
             IN /\ Resolved(a.config, arrays') =
                      Overlay([DEFAULT_CONFIG EXCEPT !.excludePatterns = DefaultExcludePatterns],
                              IF "excludePatterns" \in DOMAIN a.overrides
                              THEN Resolved(a.overrides, arrays)
                              ELSE a.overrides)
                /\ a.overrides = NoOverrides =>
                      Resolved(a.config, arrays') =
                          [maxFilesPerReview |-> 20,
                           excludePatterns |-> DefaultExcludePatterns,
                           includePositives |-> TRUE,
                           minSeverity |-> "nitpick"]
       /\ \A j \in 1..Len(agents) :
             (reply'.op \in {"assign", "push"} /\ reply'.agent # j) =>
                 Resolved(agents'[j].config, arrays') = Resolved(agents[j].config, arrays)]_vars

\* C31 (as claimed): every feedback item that carries a line, 0 included, is
\* rendered with the location file:line, and an item without a line with
\* the file alone.
C31_LineShownWheneverGiven ==
    reply.op = "formatReviewAsMarkdown" =>
        \A k \in 1..Len(reply.review.feedback) :
            LET item == reply.review.feedback[k]
                location == IF item.line # None
                            THEN item.file \o ":" \o ToString(item.line[1])
                            ELSE item.file
            IN ItemText(item, location) \in Range(reply.lines)

\* C32 (as claimed): after a load every entry of the index has the shape of
\* a MemoryEntry, and so has every entry get returns.
C32_LoadedEntriesValid ==
    loaded["owner"] =>
        /\ \A k \in 1..Len(memories["owner"]) : SafeParse(memories["owner"][k]).success
        /\ (reply.op = "get" /\ reply.entry # Null) => SafeParse(reply.entry).success

\* the ids of the entries in a storage file
FileIdsOf(d) == IF d.file = None \/ d.file = Some(Unparsable) THEN {}
                ELSE {d.file[1][k].id : k \in 1..Len(d.file[1])}
FileIds == FileIdsOf(disk)

Done == {"resolved", "rejected"}
Mutations == {"save", "delete"}
ReadOps == {"get", "search", "list"}

\* C33 (as claimed): once delete(id) has resolved, id is neither in the index
\* of the instance nor in the storage file, whatever calls overlapped it.
C33_DeleteIsFinal ==
    \A c \in Slots :
        (calls[c].op = "delete" /\ calls[c].pc = "resolved") =>
            /\ ~MapHas(memories[calls[c].inst], calls[c].id)
            /\ calls[c].id \notin FileIds

\* C34 (as claimed): when the calls issued are mutations and all of them
\* have completed, the storage file holds the entries of the index.
C34_FileMatchesIndexAfterOverlap ==
    (/\ \A c \in Slots : calls[c].op \in Mutations /\ calls[c].pc \in Done
     /\ \E c \in Slots : calls[c].pc = "resolved") =>
        disk.file = Some(Stringify(memories["owner"]))

\* C35 (as claimed): a call that writes the file has the index loaded, and
\* if it ran the load itself, that load met no failure; a storage file that
\* cannot be parsed is never written over by such a call.
C35_NoWriteWithoutLoad ==
    [][\A c \in Slots :
          (calls[c].pc = "writeFile" /\ calls'[c].pc # "writeFile") =>
              /\ loaded[calls[c].inst]
              /\ calls[c].loadedHere =>
                    /\ calls[c].failure = None
                    /\ disk.file = Some(Unparsable) => disk' = disk]_vars

\* C36 (as claimed): the loaded flag becomes true only in a load that met no
\* failure (a missing file is none), and a call rejected in its load leaves
\* the instance unloaded, so that the next call starts the load again.
C36_FailedLoadNotMemoized ==
    [][\A c \in Slots :
          LET i == calls[c].inst
          IN /\ (~loaded[i] /\ loaded'[i] /\ calls'[c].loadedHere /\ ~calls[c].loadedHere) =>
                    calls'[c].failure = None
             /\ (calls[c].pc \in Loading /\ calls'[c].pc = "rejected") =>
                    (~loaded'[i] /\ memories'[i] = memories[i])]_vars

\* C37 (as claimed): no step of a get, search or list changes the content of
\* the storage file, or the index of an instance that is loaded; the first
\* read of a path that does not exist leaves a directory and no file.
C37_ReadsChangeNothing ==
    [][\A c \in Slots :
          (calls[c].op \in ReadOps /\ calls'[c] # calls[c] /\ calls[c].pc # "idle"
              /\ calls[c].pc \notin Done) =>
              /\ disk'.file = disk.file
              /\ loaded[calls[c].inst] =>
                    memories'[calls[c].inst] = memories[calls[c].inst]]_vars

\* the step is the failure of the write of call c
WriteFails(c) == calls[c].pc = "writeFile" /\ calls'[c].pc = "rejected"

\* the failure reaches the caller and the index keeps the mutation
NotRolledBack(c) ==
    LET i == calls[c].inst
    IN /\ calls'[c].error # None /\ calls'[c].error = calls'[c].failure
       /\ memories' = memories
       /\ calls[c].op = "save" => MapGet(memories'[i], calls[c].entry.id) = calls[c].entry
       /\ calls[c].op = "delete" => ~MapHas(memories'[i], calls[c].id)

\* C38 (as claimed): a save or delete whose write fails is rejected with the
\* failure and keeps its change of the index, while the file is as before:
\* the entry saved is not in it, the entry deleted still is.
C38_FailedWriteLeavesFile ==
    [][\A c \in Slots :
          WriteFails(c) =>
              /\ NotRolledBack(c)
              /\ calls[c].op = "save" => calls[c].entry.id \notin FileIdsOf(disk')
              /\ calls[c].op = "delete" =>
                    (calls[c].id \in FileIdsOf(disk) => calls[c].id \in FileIdsOf(disk'))]_vars

\* C38 (amended): a save or delete whose write fails is rejected with the
\* failure and keeps its change of the index, which later reads serve; the
\* file is left as the failed write left it, with its previous content or
\* truncated, and never with the text of the index; a later write that
\* succeeds puts the whole index in the file.
C38_FailedWriteNotRolledBack ==
    [][\A c \in Slots :
          /\ WriteFails(c) =>
                /\ NotRolledBack(c)
                /\ disk'.file = IF calls'[c].failure[1].code = "ENOSPC"
                                THEN Some(Unparsable) ELSE disk.file
          /\ (calls[c].pc = "writeFile" /\ calls'[c].pc = "resolved") =>
                disk'.file = Some(Stringify(memories[calls[c].inst]))
          /\ (calls[c].op = "get" /\ calls[c].pc = "body" /\ calls'[c].pc = "resolved") =>
                calls'[c].entry = MapGet(memories[calls[c].inst], calls[c].id)]_vars

\* the write of a delete failed midway: the entry is gone from the index and
\* the file is truncated
C38_Witness ==
    \E c \in Slots :
        /\ calls[c].op = "delete" /\ calls[c].pc = "rejected"
        /\ calls[c].mutated
        /\ calls[c].failure = Some(FsError("open", "ENOSPC"))
        /\ ~MapHas(memories[calls[c].inst], calls[c].id)
        /\ disk.file = Some(Unparsable)

\* C39: every call issued on the file engine leaves its awaits and is
\* resolved or rejected, whatever other calls are in flight, and a call on
\* the stub is rejected in the step that issues it.
C39_EveryCallCompletes ==
    /\ \A c \in Slots : (calls[c].pc \notin {"idle"} \cup Done) ~> (calls[c].pc \in Done)
    /\ [](reply.op \in StubOps => (~reply.ok /\ reply.error # None))

\* two overlapping calls have completed, one rejected by a failure of the
\* file system and one resolved, and a call on the stub was rejected
C39_Witness ==
    /\ \E c, d \in Slots :
          /\ calls[c].pc = "rejected" /\ calls[c].failure # None
          /\ calls[d].pc = "resolved" /\ calls[d].op = "save"
          /\ calls[d].issued = calls[c].issued
    /\ reply.op \in StubOps /\ ~reply.ok

====
